---------------------------- MODULE Spec2Model ----------------------------
(***************************************************************************)
(* Model of the recipe-search API in src/main.py: the three SQLite tables  *)
(* the program creates (users, favourites, shared_recipes), the read-only  *)
(* recepti table, the cookie "session", and the HTTP handlers.             *)
(*                                                                         *)
(* Three specifications are given:                                         *)
(*   Spec        requests are handled one at a time (every handler is an   *)
(*               async def without an await, so one event loop runs it to  *)
(*               completion);                                              *)
(*   SpecConc    several server processes handle register and              *)
(*               add_favourite requests, interleaved at the granularity of *)
(*               their SQL statements;                                     *)
(*   SpecSearch  the /search handler applied to every bounded query text.  *)
(***************************************************************************)
EXTENDS Integers, Sequences, FiniteSets, Bags, TLC

VARIABLES
    users,            \* table users: set of [id, username, password_hash]
    favourites,       \* table favourites: set of [id, user_id, recipe_id]
    shared_recipes,   \* table shared_recipes: set of [id, sender_id, receiver_id, recipe_id]
    sqlite_sequence,  \* AUTOINCREMENT bookkeeping: table name -> largest id ever used
    cookie,           \* per client: the "username" cookie, <<>> (absent) or <<value>>
    resp,             \* the request handled last and the response it got
    added,            \* history: <<username, recipe_id>> favourited with success
                      \*   and no remove_favourite call for it since
    wk,               \* SpecConc: per server process, the request in progress
    lock              \* SpecConc: the process holding SQLite's write lock, or <<>>

vars == <<users, favourites, shared_recipes, sqlite_sequence, cookie, resp, added, wk, lock>>
db == <<users, favourites, shared_recipes, sqlite_sequence>>

---------------------------------------------------------------------------
(* Bounds of the model and the finite input domains.                       *)

MaxFavId == 1       \* Spec: favourites rows ever inserted
MaxShareId == 1     \* Spec: shared_recipes rows ever inserted
MaxFavRows == 2     \* SpecFav: favourites rows ever inserted
MaxShares == 2      \* SpecShare: shared_recipes rows ever inserted
MaxConcFavId == 2   \* SpecConc: favourites rows ever inserted
MaxQueryLen == 3    \* SpecSearch: characters of a query text

Clients == {"c1"}
Workers == {"w1", "w2"}
Usernames == {"alice", "bob"}
Passwords == {"pw1", "pw2"}
Salts == {"s1"}
\* Recipe ids a request may carry: 7 is a row of recepti, 9 is not.
RecipeIds == {7, 9}
\* Values a client may put into its cookie jar by hand.
ForgedCookies == Usernames \cup {""}

\* Optional values: None is <<>>, a present value v is <<v>>.
None == <<>>
Some(v) == <<v>>
Val(o) == o[1]

---------------------------------------------------------------------------
(* The pre-existing recepti table (read-only for this program). Text       *)
(* columns are sequences of one-character strings.                         *)

recepti ==
    { [id |-> 7, naziv_dat |-> "torta", slika |-> <<"png">>,
       besede |-> <<"a", "b">>, leme |-> <<"a">>],
      [id |-> 8, naziv_dat |-> "Potica", slika |-> None,
       besede |-> <<"A">>, leme |-> <<"'">>],
      [id |-> 3, naziv_dat |-> "juha", slika |-> None,
       besede |-> <<"b">>, leme |-> <<"%", "b">>],
      [id |-> 4, naziv_dat |-> "", slika |-> None,
       besede |-> <<>>, leme |-> <<>>] }

---------------------------------------------------------------------------
(* passlib's argon2: hash draws a salt, verify recomputes with the stored  *)
(* salt and compares.                                                      *)

Argon2Hash(password, salt) == [alg |-> "argon2", salt |-> salt, digest |-> <<salt, password>>]
Argon2Verify(password, hash) == hash.digest = <<hash.salt, password>>

---------------------------------------------------------------------------
(* Schema constraints of init_db.                                          *)

\* users.username TEXT UNIQUE NOT NULL
UsernameUnique(tbl, username) == \A u \in tbl : u.username # username

\* Faulty variant of NotNull: the column accepts NULL.
NotNullAccepts(o) == TRUE

\* sender_id / receiver_id / user_id INTEGER NOT NULL. FOREIGN KEY clauses are
\* declared but SQLite does not enforce them (PRAGMA foreign_keys is off).
NotNull(o) == o # None

\* How a NULL is kept in an integer column of the model; AUTOINCREMENT ids start
\* at 1, so no row id equals it.
SqlNull == 0

\* The value bound to a "?" placeholder: None binds NULL.
Column(o) == IF o = None THEN SqlNull ELSE o[1]

\* INTEGER PRIMARY KEY AUTOINCREMENT: one more than the largest id ever used.
NextId(tableName) == sqlite_sequence[tableName] + 1

---------------------------------------------------------------------------
(* DB helper functions.                                                    *)

\* get_user_id: SELECT id FROM users WHERE username=?
get_user_id(username) ==
    IF \E u \in users : u.username = username
    THEN Some((CHOOSE u \in users : u.username = username).id)
    ELSE None

\* Python's "not x" for an Optional[int]: None and 0 are falsy.
NotId(o) == o = None \/ Val(o) = 0

\* Faulty variant of NotUsername: only an absent cookie is rejected.
NotUsernameLax(o) == o = None

\* Python's "not username" for an Optional[str]: None and "" are falsy.
NotUsername(o) == o = None \/ Val(o) = ""

\* get_current_username: request.cookies.get("username")
get_current_username(c) == cookie[c]


---------------------------------------------------------------------------
(* Favourites ledger.                                                      *)

\* Faulty variant of FavouriteExists: the existence check never finds a row.
FavouriteExistsNever(user_id, recipe_id) == FALSE

\* SELECT id FROM favourites WHERE user_id=? AND recipe_id=?  ... c.fetchone()
FavouriteExists(user_id, recipe_id) ==
    \E f \in favourites : f.user_id = user_id /\ f.recipe_id = recipe_id

\* INSERT INTO favourites (user_id, recipe_id) VALUES (?, ?)
FavouriteRow(user_id, recipe_id) ==
    [id |-> NextId("favourites"), user_id |-> user_id, recipe_id |-> recipe_id]

\* add_to_favourites: the return value and the table after the call.
add_to_favourites(username, recipe_id) ==
    LET user_id == get_user_id(username) IN
    IF NotId(user_id)
    THEN [ret |-> FALSE, rows |-> favourites, seq |-> sqlite_sequence]
    ELSE IF FavouriteExists(Val(user_id), recipe_id)
    THEN [ret |-> FALSE, rows |-> favourites, seq |-> sqlite_sequence]
    ELSE [ret |-> TRUE,
          rows |-> favourites \cup {FavouriteRow(Val(user_id), recipe_id)},
          seq |-> [sqlite_sequence EXCEPT !["favourites"] = @ + 1]]

\* remove_favourite: DELETE ... WHERE user_id=? AND recipe_id=?; bool(rowcount)
remove_favourite(username, recipe_id) ==
    LET user_id == get_user_id(username) IN
    IF NotId(user_id)
    THEN [ret |-> FALSE, rows |-> favourites]
    ELSE LET hit == {f \in favourites :
                        f.user_id = Val(user_id) /\ f.recipe_id = recipe_id}
         IN [ret |-> hit # {}, rows |-> favourites \ hit]

\* The items of a JSON list as a bag (SQLite fixes no order for these queries);
\* listed is a set of <<joined rows, item>>, one per result row.
BagOf(listed) ==
    [x \in {p[2] : p \in listed} |-> Cardinality({p \in listed : p[2] = x})]

\* Faulty variant of get_user_favourites: the join is on the row id.
get_user_favourites_by_rowid(username) ==
    LET user_id == get_user_id(username) IN
    IF NotId(user_id) THEN EmptyBag
    ELSE LET joined == {<<f, r>> \in favourites \X recepti :
                           f.id = r.id /\ f.user_id = Val(user_id)}
             Item(j) == [id |-> j[2].id, naziv |-> j[2].naziv_dat]
         IN BagOf({<<j, Item(j)>> : j \in joined})

\* get_user_favourites: recepti JOIN favourites ON f.recipe_id = r.id
get_user_favourites(username) ==
    LET user_id == get_user_id(username) IN
    IF NotId(user_id) THEN EmptyBag
    ELSE LET joined == {<<f, r>> \in favourites \X recepti :
                           f.recipe_id = r.id /\ f.user_id = Val(user_id)}
             Item(j) == [id |-> j[2].id, naziv |-> j[2].naziv_dat]
         IN BagOf({<<j, Item(j)>> : j \in joined})

\* get_received_recipes: shared_recipes JOIN recepti JOIN users (the sender)
get_received_recipes(username) ==
    LET user_id == get_user_id(username) IN
    IF NotId(user_id) THEN EmptyBag
    ELSE LET joined == {<<s, r, u>> \in shared_recipes \X recepti \X users :
                           /\ s.recipe_id = r.id
                           /\ s.sender_id = u.id
                           /\ s.receiver_id = Val(user_id)}
             Item(j) == [id |-> j[2].id, naziv |-> j[2].naziv_dat,
                         sender |-> j[3].username]
         IN BagOf({<<j, Item(j)>> : j \in joined})

---------------------------------------------------------------------------
(* Recipe repository.                                                      *)

\* base64 data URI of the image blob, "" (the empty sequence) without a blob.
DataUri(blob) ==
    IF blob = None THEN <<>> ELSE <<"data:image/png;base64,", [b64 |-> blob]>>

RecipeSummary(r) == [id |-> r.id, naziv |-> r.naziv_dat, image |-> DataUri(r.slika)]

\* get_recipe_by_id: SELECT ... FROM recepti WHERE id=?
get_recipe_by_id(recipe_id) ==
    IF \E r \in recepti : r.id = recipe_id
    THEN Some(RecipeSummary(CHOOSE r \in recepti : r.id = recipe_id))
    ELSE None

\* str.lower() on one character of the modelled alphabet.
Lower(ch) == IF ch = "A" THEN "a" ELSE IF ch = "B" THEN "b" ELSE ch

LowerStr(s) == [i \in 1..Len(s) |-> Lower(s[i])]

\* Length of the leading run of non-blank characters of s.
WordLen(s) ==
    IF \E i \in 1..Len(s) : s[i] = " "
    THEN (CHOOSE i \in 1..Len(s) :
             s[i] = " " /\ \A j \in 1..(i - 1) : s[j] # " ") - 1
    ELSE Len(s)

\* str.split(): the maximal runs of non-blank characters, in order.
RECURSIVE Split(_)
Split(s) ==
    IF s = <<>> THEN <<>>
    ELSE IF Head(s) = " " THEN Split(Tail(s))
    ELSE <<SubSeq(s, 1, WordLen(s))>> \o Split(SubSeq(s, WordLen(s) + 1, Len(s)))

\* How SQLite reads text interpolated between two single quotes: '' is one
\* quote inside the literal; a lone quote ends the literal, and what follows is
\* no longer the LIKE pattern (for the modelled alphabet the statement is then
\* a syntax error or compares with NULL: either way it selects no row).
RECURSIVE SqlString(_)
SqlString(s) ==
    IF s = <<>> THEN [ok |-> TRUE, text |-> <<>>]
    ELSE IF Head(s) = "'"
    THEN IF Len(s) >= 2 /\ s[2] = "'"
         THEN LET rest == SqlString(SubSeq(s, 3, Len(s)))
              IN [ok |-> rest.ok, text |-> <<"'">> \o rest.text]
         ELSE [ok |-> FALSE, text |-> <<>>]
    ELSE LET rest == SqlString(Tail(s))
         IN [ok |-> rest.ok, text |-> <<Head(s)>> \o rest.text]

\* SQLite's LIKE: % matches any run, _ any one character, letters match
\* without regard to (ASCII) case.
RECURSIVE Like(_, _)
Like(pattern, text) ==
    IF pattern = <<>> THEN text = <<>>
    ELSE IF Head(pattern) = "%"
    THEN \E k \in 0..Len(text) : Like(Tail(pattern), SubSeq(text, k + 1, Len(text)))
    ELSE /\ text # <<>>
         /\ (Head(pattern) = "_" \/ Lower(Head(pattern)) = Lower(Head(text)))
         /\ Like(Tail(pattern), Tail(text))

\* (besede LIKE '%{kw}%' OR leme LIKE '%{kw}%') on one row, kw as SQLite reads it.
Pogoj(kwText, r) ==
    \/ Like(<<"%">> \o kwText \o <<"%">>, r.besede)
    \/ Like(<<"%">> \o kwText \o <<"%">>, r.leme)

\* search_recipes: the conditions joined by AND; any failure of the statement
\* is caught and gives no rows.
search_recipes(keywords) ==
    IF keywords = <<>> THEN {}
    ELSE LET lit == [i \in 1..Len(keywords) |-> SqlString(keywords[i])] IN
         IF \E i \in 1..Len(keywords) : ~lit[i].ok THEN {}
         ELSE {RecipeSummary(r) :
                  r \in {x \in recepti :
                            \A i \in 1..Len(keywords) : Pogoj(lit[i].text, x)}}

---------------------------------------------------------------------------
(* Routes. Each action is one request of client c handled to completion;   *)
(* resp records the request and its response.                              *)

Respond(op, c, arg, status, body) ==
    [op |-> op, client |-> c, cookie |-> cookie[c], arg |-> arg,
     status |-> status, body |-> body]

NiPrijave == [error |-> "Ni prijave"]
NiPrijaveSuccess == [success |-> FALSE, error |-> "Ni prijave"]

\* The row a registration inserts.
UserRow(username, pw_hash) ==
    [id |-> NextId("users"), username |-> username, password_hash |-> pw_hash]

\* POST /api/register
Register(c, username, password, salt) ==
    /\ LET pw_hash == Argon2Hash(password, salt) IN
       IF UsernameUnique(users, username)
       THEN /\ users' = users \cup {UserRow(username, pw_hash)}
            /\ sqlite_sequence' = [sqlite_sequence EXCEPT !["users"] = @ + 1]
            /\ resp' = Respond("register", c, <<username, password>>, 200,
                               [success |-> TRUE,
                                message |-> "Registracija uspesna. Prijavi se."])
       ELSE /\ UNCHANGED <<users, sqlite_sequence>>
            /\ resp' = Respond("register", c, <<username, password>>, 200,
                               [success |-> FALSE,
                                message |-> "Uporabnisko ime ze obstaja."])
    /\ UNCHANGED <<favourites, shared_recipes, cookie, added, wk, lock>>

\* SELECT password_hash FROM users WHERE username=? ... c.fetchone()
UserByName(username) ==
    IF \E u \in users : u.username = username
    THEN Some(CHOOSE u \in users : u.username = username)
    ELSE None

\* Faulty variant of LoginOk: the password is not verified.
LoginOkNoVerify(user, password) == user # None

\* if user and argon2.verify(password, user[0])
LoginOk(user, password) ==
    user # None /\ Argon2Verify(password, Val(user).password_hash)

\* POST /api/login
Login(c, username, password) ==
    /\ IF LoginOk(UserByName(username), password)
       THEN /\ resp' = Respond("login", c, <<username, password>>, 200,
                               [success |-> TRUE])
            /\ cookie' = [cookie EXCEPT ![c] = Some(username)]
       ELSE /\ resp' = Respond("login", c, <<username, password>>, 401,
                               [success |-> FALSE,
                                message |-> "Napacno uporabnisko ime ali geslo."])
            /\ UNCHANGED cookie
    /\ UNCHANGED <<db, added, wk, lock>>

\* POST /api/logout
Logout(c) ==
    /\ resp' = Respond("logout", c, <<>>, 200, [success |-> TRUE])
    /\ cookie' = [cookie EXCEPT ![c] = None]
    /\ UNCHANGED <<db, added, wk, lock>>

\* The cookie is plain text the client holds: it may send any value.
ForgeCookie(c, value) ==
    /\ cookie' = [cookie EXCEPT ![c] = Some(value)]
    /\ UNCHANGED <<db, resp, added, wk, lock>>

\* GET /api/me
Me(c) ==
    /\ LET username == get_current_username(c) IN
       IF NotUsername(username)
       THEN resp' = Respond("me", c, <<>>, 401, NiPrijave)
       ELSE resp' = Respond("me", c, <<>>, 200,
                            [username |-> Val(username),
                             favourites |-> get_user_favourites(Val(username)),
                             received |-> get_received_recipes(Val(username))])
    /\ UNCHANGED <<db, cookie, added, wk, lock>>

\* POST /api/search
ApiSearch(c, query) ==
    /\ LET username == get_current_username(c) IN
       IF NotUsername(username)
       THEN resp' = Respond("search", c, query, 401, NiPrijave)
       ELSE LET keywords == Split(LowerStr(query))
            IN resp' = Respond("search", c, query, 200, search_recipes(keywords))
    /\ UNCHANGED <<db, cookie, added, wk, lock>>

\* POST /api/add_favourite
ApiAddFavourite(c, recipe_id) ==
    /\ LET username == get_current_username(c) IN
       IF NotUsername(username)
       THEN /\ resp' = Respond("add_favourite", c, recipe_id, 401, NiPrijaveSuccess)
            /\ UNCHANGED <<favourites, sqlite_sequence, added>>
       ELSE LET r == add_to_favourites(Val(username), recipe_id) IN
            /\ favourites' = r.rows
            /\ sqlite_sequence' = r.seq
            /\ resp' = Respond("add_favourite", c, recipe_id, 200, [success |-> r.ret])
            /\ added' = IF r.ret THEN added \cup {<<Val(username), recipe_id>>}
                        ELSE added
    /\ UNCHANGED <<users, shared_recipes, cookie, wk, lock>>

\* POST /api/remove_favourite
ApiRemoveFavourite(c, recipe_id) ==
    /\ LET username == get_current_username(c) IN
       IF NotUsername(username)
       THEN /\ resp' = Respond("remove_favourite", c, recipe_id, 401, NiPrijaveSuccess)
            /\ UNCHANGED <<favourites, added>>
       ELSE LET r == remove_favourite(Val(username), recipe_id) IN
            /\ favourites' = r.rows
            /\ resp' = Respond("remove_favourite", c, recipe_id, 200, [success |-> r.ret])
            /\ added' = added \ {<<Val(username), recipe_id>>}
    /\ UNCHANGED <<users, shared_recipes, sqlite_sequence, cookie, wk, lock>>

\* Faulty variant of ShareRows: an identical earlier share is not repeated.
ShareRowsDedup(sender_id, receiver_id, recipe_id) ==
    IF \E s \in shared_recipes : /\ s.sender_id = sender_id
                                 /\ s.receiver_id = receiver_id
                                 /\ s.recipe_id = recipe_id
    THEN shared_recipes
    ELSE shared_recipes \cup {[id |-> NextId("shared_recipes"), sender_id |-> sender_id,
                               receiver_id |-> receiver_id, recipe_id |-> recipe_id]}

\* INSERT INTO shared_recipes (sender_id, receiver_id, recipe_id) VALUES (?, ?, ?)
ShareRows(sender_id, receiver_id, recipe_id) ==
    shared_recipes \cup {[id |-> NextId("shared_recipes"), sender_id |-> sender_id,
                          receiver_id |-> receiver_id, recipe_id |-> recipe_id]}

\* Faulty variant of ReceiverMissing: the receiver is not checked.
ReceiverUnchecked(receiver_id) == FALSE

\* if not receiver_id
ReceiverMissing(receiver_id) == NotId(receiver_id)

\* POST /api/share_recipe. A NULL sender_id or receiver_id violates NOT NULL:
\* the INSERT raises sqlite3.IntegrityError, which the handler does not catch,
\* so nothing is committed and the framework answers 500.
ApiShareRecipe(c, receiver, recipe_id) ==
    /\ LET username == get_current_username(c) IN
       IF NotUsername(username)
       THEN /\ resp' = Respond("share_recipe", c, <<receiver, recipe_id>>, 401,
                               NiPrijaveSuccess)
            /\ UNCHANGED <<shared_recipes, sqlite_sequence>>
       ELSE LET sender_id == get_user_id(Val(username))
                receiver_id == get_user_id(receiver)
            IN IF ReceiverMissing(receiver_id)
               THEN /\ resp' = Respond("share_recipe", c, <<receiver, recipe_id>>, 200,
                                       [success |-> FALSE,
                                        error |-> "Prejemnik ne obstaja."])
                    /\ UNCHANGED <<shared_recipes, sqlite_sequence>>
               ELSE IF NotNull(sender_id) /\ NotNull(receiver_id)
               THEN /\ shared_recipes' = ShareRows(Column(sender_id), Column(receiver_id),
                                                 recipe_id)
                    /\ sqlite_sequence' =
                           [sqlite_sequence EXCEPT !["shared_recipes"] = @ + 1]
                    /\ resp' = Respond("share_recipe", c, <<receiver, recipe_id>>, 200,
                                       [success |-> TRUE])
               ELSE /\ resp' = Respond("share_recipe", c, <<receiver, recipe_id>>, 500,
                                       [error |-> "Internal Server Error"])
                    /\ UNCHANGED <<shared_recipes, sqlite_sequence>>
    /\ UNCHANGED <<users, favourites, cookie, added, wk, lock>>

\* POST /api/get_recipe
ApiGetRecipe(c, recipe_id) ==
    /\ LET username == get_current_username(c) IN
       IF NotUsername(username)
       THEN resp' = Respond("get_recipe", c, recipe_id, 401, NiPrijave)
       ELSE LET recipe == get_recipe_by_id(recipe_id) IN
            IF recipe # None
            THEN resp' = Respond("get_recipe", c, recipe_id, 200, Val(recipe))
            ELSE resp' = Respond("get_recipe", c, recipe_id, 404,
                                 [error |-> "Recept ni najden"])
    /\ UNCHANGED <<db, cookie, added, wk, lock>>

\* GET /api/health
Health(c) ==
    /\ resp' = Respond("health", c, <<>>, 200, [status |-> "ok"])
    /\ UNCHANGED <<db, cookie, added, wk, lock>>

---------------------------------------------------------------------------
(* Requests handled one at a time.                                         *)

\* A server process between requests; op, username and result are those of the
\* request it handled last.
Idle(op, username, result) ==
    [pc |-> "idle", op |-> op, username |-> username, pw_hash |-> None,
     recipe_id |-> SqlNull, user_id |-> None, row |-> None, result |-> result]

NoResponse == [op |-> "none", client |-> "", cookie |-> None, arg |-> <<>>,
               status |-> 0, body |-> <<>>]

Init ==
    /\ users = {}
    /\ favourites = {}
    /\ shared_recipes = {}
    /\ sqlite_sequence = [t \in {"users", "favourites", "shared_recipes"} |-> 0]
    /\ cookie = [c \in Clients |-> None]
    /\ resp = NoResponse
    /\ added = {}
    /\ wk = [w \in Workers |-> Idle("none", "", "none")]
    /\ lock = None

\* The query text, the recipe id and the password sent in Spec, where every
\* route is open (SpecFav and SpecShare send all of RecipeIds, SpecFav all of
\* Passwords).
SpecQueries == {<<"A", " ", "b">>}
SpecRecipeIds == {7}
SpecPasswords == {"pw1"}

\* Every route, one request at a time.
Next ==
    \E c \in Clients :
        \/ \E u \in Usernames, p \in SpecPasswords, salt \in Salts : Register(c, u, p, salt)
        \/ \E u \in Usernames, p \in SpecPasswords : Login(c, u, p)
        \/ Logout(c)
        \/ \E v \in ForgedCookies : ForgeCookie(c, v)
        \/ Me(c)
        \/ \E q \in SpecQueries : ApiSearch(c, q)
        \/ \E r \in SpecRecipeIds :
              ApiAddFavourite(c, r) /\ sqlite_sequence'["favourites"] <= MaxFavId
        \/ \E r \in SpecRecipeIds : ApiRemoveFavourite(c, r)
        \/ \E u \in Usernames, r \in SpecRecipeIds :
              ApiShareRecipe(c, u, r) /\ sqlite_sequence'["shared_recipes"] <= MaxShareId
        \/ \E r \in SpecRecipeIds : ApiGetRecipe(c, r)
        \/ Health(c)

Spec == Init /\ [][Next]_vars

\* The account and favourites routes.
NextFav ==
    \E c \in Clients :
        \/ \E u \in Usernames, p \in Passwords, salt \in Salts : Register(c, u, p, salt)
        \/ \E u \in Usernames, p \in Passwords : Login(c, u, p)
        \/ Logout(c)
        \/ \E v \in ForgedCookies : ForgeCookie(c, v)
        \/ Me(c)
        \/ \E r \in RecipeIds :
              ApiAddFavourite(c, r) /\ sqlite_sequence'["favourites"] <= MaxFavRows
        \/ \E r \in RecipeIds : ApiRemoveFavourite(c, r)

SpecFav == Init /\ [][NextFav]_vars

\* The account and sharing routes.
NextShare ==
    \E c \in Clients :
        \/ \E u \in Usernames, p \in SpecPasswords, salt \in Salts : Register(c, u, p, salt)
        \/ \E u \in Usernames, p \in SpecPasswords : Login(c, u, p)
        \/ \E v \in ForgedCookies : ForgeCookie(c, v)
        \/ \E u \in Usernames, r \in RecipeIds :
              ApiShareRecipe(c, u, r) /\ sqlite_sequence'["shared_recipes"] <= MaxShares

SpecShare == Init /\ [][NextShare]_vars

---------------------------------------------------------------------------
(* Several server processes. Each opens its own connection per call, so    *)
(* the statements of two requests may interleave. A process that has       *)
(* executed an INSERT holds SQLite's write lock until it commits; another  *)
(* writer waits for it (lock waits are taken to stay below sqlite3's busy  *)
(* timeout). Readers see committed rows only.                              *)

\* register: pw_hash = argon2.hash(password); connect
RegStart(w, username, password, salt) ==
    /\ wk[w].pc = "idle"
    /\ wk' = [wk EXCEPT ![w] = [Idle("register", username, "none") EXCEPT
                  !.pc = "reg_insert",
                  !.pw_hash = Some(Argon2Hash(password, salt))]]
    /\ UNCHANGED <<db, cookie, resp, added, lock>>

\* Faulty variant of UsernameFree: the UNIQUE constraint is missing.
UsernameFreeAlways(username) == TRUE

\* The UNIQUE constraint on the INSERT of register.
UsernameFree(username) == UsernameUnique(users, username)

\* register: INSERT INTO users ...; sqlite3.IntegrityError gives success False
\* and the connection is closed.
RegInsert(w) ==
    /\ wk[w].pc = "reg_insert"
    /\ lock = None
    /\ IF UsernameFree(wk[w].username)
       THEN /\ wk' = [wk EXCEPT ![w].pc = "reg_commit",
                                ![w].row = Some(UserRow(wk[w].username,
                                                        Val(wk[w].pw_hash)))]
            /\ lock' = Some(w)
       ELSE /\ wk' = [wk EXCEPT ![w] = Idle(wk[w].op, wk[w].username, "success_false")]
            /\ UNCHANGED lock
    /\ UNCHANGED <<db, cookie, resp, added>>

\* register: conn.commit(); success True
RegCommit(w) ==
    /\ wk[w].pc = "reg_commit"
    /\ users' = users \cup {Val(wk[w].row)}
    /\ sqlite_sequence' = [sqlite_sequence EXCEPT !["users"] = @ + 1]
    /\ lock' = None
    /\ wk' = [wk EXCEPT ![w] = Idle(wk[w].op, wk[w].username, "success_true")]
    /\ UNCHANGED <<favourites, shared_recipes, cookie, resp, added>>

\* api_add_favourite with a non-empty cookie: add_to_favourites is entered.
AfStart(w, username, recipe_id) ==
    /\ wk[w].pc = "idle"
    /\ wk' = [wk EXCEPT ![w] = [Idle("add_favourite", username, "none") EXCEPT
                  !.pc = "af_lookup", !.recipe_id = recipe_id]]
    /\ UNCHANGED <<db, cookie, resp, added, lock>>

\* add_to_favourites: user_id = get_user_id(username); if not user_id: return False
AfLookup(w) ==
    /\ wk[w].pc = "af_lookup"
    /\ LET user_id == get_user_id(wk[w].username) IN
       IF NotId(user_id)
       THEN wk' = [wk EXCEPT ![w] = Idle(wk[w].op, wk[w].username, "success_false")]
       ELSE wk' = [wk EXCEPT ![w].pc = "af_select", ![w].user_id = user_id]
    /\ UNCHANGED <<db, cookie, resp, added, lock>>

\* add_to_favourites: SELECT id FROM favourites ...; if c.fetchone(): return False
AfSelect(w) ==
    /\ wk[w].pc = "af_select"
    /\ IF FavouriteExists(Val(wk[w].user_id), wk[w].recipe_id)
       THEN wk' = [wk EXCEPT ![w] = Idle(wk[w].op, wk[w].username, "success_false")]
       ELSE wk' = [wk EXCEPT ![w].pc = "af_insert"]
    /\ UNCHANGED <<db, cookie, resp, added, lock>>

\* add_to_favourites: INSERT INTO favourites ...
AfInsert(w) ==
    /\ wk[w].pc = "af_insert"
    /\ lock = None
    /\ lock' = Some(w)
    /\ wk' = [wk EXCEPT ![w].pc = "af_commit",
                        ![w].row = Some(FavouriteRow(Val(wk[w].user_id),
                                                     wk[w].recipe_id))]
    /\ UNCHANGED <<db, cookie, resp, added>>

\* add_to_favourites: conn.commit(); return True
AfCommit(w) ==
    /\ wk[w].pc = "af_commit"
    /\ favourites' = favourites \cup {Val(wk[w].row)}
    /\ sqlite_sequence' = [sqlite_sequence EXCEPT !["favourites"] = @ + 1]
    /\ lock' = None
    /\ wk' = [wk EXCEPT ![w] = Idle(wk[w].op, wk[w].username, "success_true")]
    /\ UNCHANGED <<users, shared_recipes, cookie, resp, added>>

NextConc ==
    \E w \in Workers :
        \/ \E u \in Usernames, p \in Passwords, salt \in Salts : RegStart(w, u, p, salt)
        \/ RegInsert(w)
        \/ RegCommit(w)
        \/ \E u \in Usernames, r \in SpecRecipeIds : AfStart(w, u, r)
        \/ AfLookup(w)
        \/ AfSelect(w)
        \/ sqlite_sequence["favourites"] < MaxConcFavId /\ AfInsert(w)
        \/ AfCommit(w)

SpecConc == Init /\ [][NextConc]_vars

---------------------------------------------------------------------------
(* The /search handler on every query text up to MaxQueryLen characters.   *)

QueryChars == {"a", "A", "b", " ", "'", "_", "%"}
Queries == UNION {[1..n -> QueryChars] : n \in 0..MaxQueryLen}

InitSearch ==
    /\ users = {}
    /\ favourites = {}
    /\ shared_recipes = {}
    /\ sqlite_sequence = [t \in {"users", "favourites", "shared_recipes"} |-> 0]
    /\ cookie \in [Clients -> {None, Some("alice")}]
    /\ resp = NoResponse
    /\ added = {}
    /\ wk = [w \in Workers |-> Idle("none", "", "none")]
    /\ lock = None

NextSearch == \E c \in Clients, q \in Queries : ApiSearch(c, q)

SpecSearch == InitSearch /\ [][NextSearch]_vars

---------------------------------------------------------------------------
(* Properties.                                                             *)

\* Whether the cookie client c holds names no user: absent or empty.
NoIdentity(c) == cookie[c] = None \/ cookie[c] = Some("")

\* Whether username has a row in users.
Registered(username) == \E u \in users : u.username = username

\* The rows of table tbl for user username and recipe recipe_id.
PairRows(tbl, username, recipe_id) ==
    {f \in tbl : /\ f.recipe_id = recipe_id
                 /\ \E u \in users : u.username = username /\ u.id = f.user_id}

\* Whether the response carries success with the given value.
Success(response, value) ==
    "success" \in DOMAIN response.body /\ response.body.success = value

\* C1 (SpecConc): in every reachable state the favourites table holds at most
\* one row for any (user_id, recipe_id) pair, whatever the interleaving of the
\* steps of concurrently handled add_favourite requests.
C1_AtMostOneRowPerPair ==
    \A f \in favourites, g \in favourites :
        (f.user_id = g.user_id /\ f.recipe_id = g.recipe_id) => f = g

\* C2 (SpecFav): add_favourite of a registered user for a pair not yet in the
\* table returns true and inserts exactly one row; the same call made directly
\* after it, and any call for a pair already in the table, returns false and
\* inserts nothing, so exactly one row holds the pair; for an unknown user the
\* call returns false and inserts nothing.
C2_AddFavouriteIdempotent ==
    [][\A c \in Clients, r \in RecipeIds :
          (ApiAddFavourite(c, r) /\ ~NoIdentity(c)) =>
             LET u == Val(cookie[c])
                 repeated == /\ resp.op = "add_favourite"
                             /\ resp.cookie = cookie[c]
                             /\ resp.arg = r
                             /\ Success(resp, TRUE)
             IN IF ~Registered(u)
                THEN Success(resp', FALSE) /\ favourites' = favourites
                ELSE /\ Cardinality(PairRows(favourites', u, r)) = 1
                     /\ IF PairRows(favourites, u, r) = {}
                        THEN /\ Success(resp', TRUE)
                             /\ favourites \subseteq favourites'
                             /\ Cardinality(favourites') = Cardinality(favourites) + 1
                        ELSE Success(resp', FALSE) /\ favourites' = favourites
                     /\ repeated => (Success(resp', FALSE) /\ favourites' = favourites)
      ]_vars

\* C2's case: a repeated add_favourite of a registered user answered false while
\* one row holds the pair.
C2_Witness ==
    /\ resp.op = "add_favourite"
    /\ resp.status = 200
    /\ Success(resp, FALSE)
    /\ Cardinality(PairRows(favourites, Val(resp.cookie), resp.arg)) = 1

\* C3 (SpecConc): a register whose username already has a row returns
\* success:false and leaves users unchanged; no row of users is ever changed or
\* removed; there is at most one row per username; a register that finds the
\* username free goes on to commit exactly that one row and succeed.
C3_RegisterUniqueUsername ==
    [][/\ \A w \in Workers :
             (RegInsert(w) /\ Registered(wk[w].username)) =>
                 /\ wk'[w].pc = "idle"
                 /\ wk'[w].result = "success_false"
                 /\ users' = users
       /\ \A w \in Workers :
             (RegInsert(w) /\ ~Registered(wk[w].username)) =>
                 wk'[w].pc = "reg_commit"
       /\ \A w \in Workers :
             RegCommit(w) =>
                 /\ wk'[w].result = "success_true"
                 /\ ~Registered(wk[w].username)
                 /\ \E row \in users' :
                       /\ row.username = wk[w].username
                       /\ row.password_hash = Val(wk[w].pw_hash)
                       /\ users' = users \cup {row}
       /\ users \subseteq users'
       /\ \A a \in users', b \in users' : a.username = b.username => a = b
      ]_vars

\* C3's case: two registrations of one username have completed, one with
\* success and one without.
C3_Witness ==
    \E v \in Workers, w \in Workers :
        /\ wk[v].pc = "idle" /\ wk[v].op = "register" /\ wk[v].result = "success_true"
        /\ wk[w].pc = "idle" /\ wk[w].op = "register" /\ wk[w].result = "success_false"
        /\ wk[v].username = wk[w].username

\* A request of client c to one of the protected routes (the test of resp'.op
\* only spares evaluating the actions a step cannot be).
ProtectedRequest(c) ==
    \/ resp'.op = "me" /\ Me(c)
    \/ resp'.op = "search" /\ \E q \in SpecQueries : ApiSearch(c, q)
    \/ resp'.op = "add_favourite" /\ \E r \in SpecRecipeIds : ApiAddFavourite(c, r)
    \/ resp'.op = "remove_favourite" /\ \E r \in SpecRecipeIds : ApiRemoveFavourite(c, r)
    \/ resp'.op = "share_recipe"
          /\ \E u \in Usernames, r \in SpecRecipeIds : ApiShareRecipe(c, u, r)
    \/ resp'.op = "get_recipe" /\ \E r \in SpecRecipeIds : ApiGetRecipe(c, r)

\* C4 (Spec): a request to a protected route whose identity cookie is absent or
\* empty is answered 401 and writes nothing to users, favourites or
\* shared_recipes; with a cookie that holds a value the request is not answered
\* 401 (it is handed to the operation).
C4_ProtectedRoutesNeedCookie ==
    [][\A c \in Clients :
          ProtectedRequest(c) =>
             IF NoIdentity(c)
             THEN /\ resp'.status = 401
                  /\ UNCHANGED <<users, favourites, shared_recipes>>
             ELSE resp'.status # 401
      ]_vars

\* C4's case: an add_favourite sent with an empty cookie, answered 401, while a
\* user exists.
C4_Witness ==
    /\ resp.op = "add_favourite"
    /\ resp.cookie = Some("")
    /\ resp.status = 401
    /\ users # {}

\* The 401 body of login.
LoginFailure ==
    [success |-> FALSE, message |-> "Napacno uporabnisko ime ali geslo."]

\* C5 (SpecFav): login sets the cookie (to the submitted username) exactly when
\* the username has a row whose stored hash verifies the password; every other
\* login, unknown username or wrong password alike, gets status 401 with the
\* one failure body and leaves the cookie as it was.
C5_LoginCookieIffVerified ==
    [][\A c \in Clients, u \in Usernames, p \in Passwords :
          Login(c, u, p) =>
             IF \E x \in users : x.username = u /\ Argon2Verify(p, x.password_hash)
             THEN /\ cookie'[c] = Some(u)
                  /\ resp'.status = 200
             ELSE /\ cookie' = cookie
                  /\ resp'.status = 401
                  /\ resp'.body = LoginFailure
      ]_vars

\* C5's case: a login of an existing user with a wrong password was refused,
\* and some username is still unknown.
C5_Witness ==
    /\ resp.op = "login"
    /\ resp.status = 401
    /\ Registered(resp.arg[1])
    /\ \E u \in Usernames : ~Registered(u)

\* Whether kw occurs in text as a substring, letters compared without regard
\* to case (the store's default collation for LIKE).
IsSubstring(kw, text) ==
    \E i \in 0..(Len(text) - Len(kw)) :
        \A j \in 1..Len(kw) : Lower(text[i + j]) = Lower(kw[j])

\* C6 (SpecSearch): for every keyword list the /search handler produces, search
\* returns exactly the recipes for which every keyword is a substring of besede
\* or of leme; the empty keyword list returns the empty list.
C6_SearchIsSubstringConjunction ==
    (resp.op = "search" /\ resp.status = 200) =>
        LET keywords == Split(LowerStr(resp.arg))
            expected == IF keywords = <<>> THEN {}
                        ELSE {r \in recepti :
                                 \A i \in 1..Len(keywords) :
                                     \/ IsSubstring(keywords[i], r.besede)
                                     \/ IsSubstring(keywords[i], r.leme)}
        IN {x.id : x \in resp.body} = {r.id : r \in expected}

\* C7 (SpecShare): share_recipe whose receiver has no user row returns
\* success:false with an error and leaves every table unchanged, whoever the
\* sender is and whatever the recipe id.
C7_ShareToUnknownReceiverFails ==
    [][\A c \in Clients, u \in Usernames, r \in RecipeIds :
          (ApiShareRecipe(c, u, r) /\ ~Registered(u)) =>
             /\ Success(resp', FALSE)
             /\ "error" \in DOMAIN resp'.body
             /\ UNCHANGED <<users, favourites, shared_recipes, sqlite_sequence>>
      ]_vars

\* C7's case: a registered sender shared to an unknown receiver and was refused.
C7_Witness ==
    /\ resp.op = "share_recipe"
    /\ resp.status = 200
    /\ Success(resp, FALSE)
    /\ Registered(Val(resp.cookie))
    /\ ~Registered(resp.arg[1])

\* C8 (Spec): every favourites row's user_id and every shared_recipes row's
\* sender_id and receiver_id is the id of a users row, in every reachable state.
C8_RowsReferenceUsers ==
    /\ \A f \in favourites : \E u \in users : u.id = f.user_id
    /\ \A s \in shared_recipes :
          /\ \E u \in users : u.id = s.sender_id
          /\ \E u \in users : u.id = s.receiver_id

\* C8's case: both ledgers hold a row and the last request was a share sent
\* with a cookie naming a user that does not exist.
C8_Witness ==
    /\ favourites # {}
    /\ shared_recipes # {}
    /\ resp.op = "share_recipe"
    /\ resp.cookie # None
    /\ ~Registered(Val(resp.cookie))
    /\ Registered(resp.arg[1])

\* The row a share of (sender, receiver, recipe_id) adds to table tbl.
IsShareOf(row, sender, receiver, recipe_id) ==
    /\ row.recipe_id = recipe_id
    /\ \E u \in users : u.username = sender /\ u.id = row.sender_id
    /\ \E u \in users : u.username = receiver /\ u.id = row.receiver_id

\* C9 as stated (SpecShare): share_recipe with a cookie present and a receiver
\* that has a user row appends exactly one row and returns success:true,
\* whether or not the sender has a user row.
C9_ShareAppendsUnconditionally ==
    [][\A c \in Clients, u \in Usernames, r \in RecipeIds :
          (ApiShareRecipe(c, u, r) /\ ~NoIdentity(c) /\ Registered(u)) =>
             /\ Success(resp', TRUE)
             /\ shared_recipes \subseteq shared_recipes'
             /\ Cardinality(shared_recipes') = Cardinality(shared_recipes) + 1
      ]_vars

\* C9 amended (SpecShare): with a receiver that has a user row, share_recipe
\* appends exactly one row and returns success:true when the cookie's username
\* has a user row, also when an identical share exists already; when the
\* cookie's username has no user row the insert is refused (sender_id NOT NULL),
\* no row is written and the request ends with status 500. No step deletes or
\* changes a share row.
C9_ShareAppendsForKnownSender ==
    [][/\ \A c \in Clients, u \in Usernames, r \in RecipeIds :
             (ApiShareRecipe(c, u, r) /\ ~NoIdentity(c) /\ Registered(u)) =>
                IF Registered(Val(cookie[c]))
                THEN /\ resp'.status = 200
                     /\ Success(resp', TRUE)
                     /\ \E row \in shared_recipes' \ shared_recipes :
                           /\ IsShareOf(row, Val(cookie[c]), u, r)
                           /\ shared_recipes' = shared_recipes \cup {row}
                ELSE /\ resp'.status = 500
                     /\ shared_recipes' = shared_recipes
       /\ shared_recipes \subseteq shared_recipes'
      ]_vars

\* C9's case: the same share was made twice and both rows are kept.
C9_Witness ==
    \E s \in shared_recipes, t \in shared_recipes :
        /\ s.id # t.id
        /\ s.sender_id = t.sender_id
        /\ s.receiver_id = t.receiver_id
        /\ s.recipe_id = t.recipe_id

\* Whether the /me response lists recipe id recipe_id among the favourites.
Lists(response, recipe_id) ==
    /\ response.status = 200
    /\ \E item \in DOMAIN response.body.favourites : item.id = recipe_id

\* C10 as stated (SpecFav): after add_favourite(r) succeeded for u, every /me
\* sent with u's cookie lists r until remove_favourite(r) is called for u;
\* logout clears the cookie and /me without the cookie is answered 401.
C10_MeListsEveryFavourite ==
    [][\A c \in Clients :
          /\ (Me(c) /\ ~NoIdentity(c)) =>
                \A r \in RecipeIds :
                    <<Val(cookie[c]), r>> \in added => Lists(resp', r)
          /\ Logout(c) => cookie'[c] = None
          /\ (Me(c) /\ cookie[c] = None) => resp'.status = 401
      ]_vars

\* C10 amended (SpecFav): the same, for the recipe ids r that have a row in
\* recepti.
C10_MeListsExistingFavourite ==
    [][\A c \in Clients :
          /\ (Me(c) /\ ~NoIdentity(c)) =>
                \A r \in RecipeIds :
                    (<<Val(cookie[c]), r>> \in added /\ \E x \in recepti : x.id = r)
                        => Lists(resp', r)
          /\ Logout(c) => cookie'[c] = None
          /\ (Me(c) /\ cookie[c] = None) => resp'.status = 401
      ]_vars

\* C10's case: /me of a user who favourited recipe 7, listing it.
C10_Witness ==
    /\ resp.op = "me"
    /\ resp.cookie # None
    /\ <<Val(resp.cookie), 7>> \in added
    /\ Lists(resp, 7)

============================================================================
